---- MODULE Spec2Model ----
(***************************************************************************)
(* ImageBackingStore (src/src/ImageBackingStore.cpp): one storage object   *)
(* that serves an emulated drive from a raw SD sector range, a file of the *)
(* SD filesystem, or the ROM drive.                                        *)
(*                                                                         *)
(* Integer widths are scaled so that the values fit the model checker's    *)
(* integers: a uint32_t / size_t / unsigned long value is kept modulo      *)
(* 2^U32Bits, a uint64_t value modulo 2^U64Bits.  SD_SECTOR_SIZE keeps its *)
(* value.  2^U64Bits / SD_SECTOR_SIZE is larger than 2^U32Bits, so the     *)
(* truncation of a 64-bit sector number to 32 bits happens as in the code. *)
(***************************************************************************)
EXTENDS Integers, Sequences, FiniteSets, TLC

\* sector size of the SD card (SdFat's SD_SECTOR_SIZE, used at line 56 ff.)
SD_SECTOR_SIZE == 512

\* scaled widths of the C integer types
U32Bits == 12
U64Bits == 24

\* number of sectors of the small SD card of the model
SmallCard == 6

\* operations issued on one store after its construction
MaxOps == 3

U32 == 2 ^ U32Bits
U64 == 2 ^ U64Bits

\* conversion to uint32_t
ToU32(n) == n % U32

\* conversion to uint64_t
ToU64(n) == n % U64

Min(a, b) == IF a < b THEN a ELSE b
Max(a, b) == IF a < b THEN b ELSE a

(***************************************************************************)
(* C strings: a sequence of one-character strings; the terminating NUL is  *)
(* the end of the sequence.                                                *)
(***************************************************************************)
ToLowerChar(c) ==
    CASE c = "R" -> "r" [] c = "A" -> "a" [] c = "W" -> "w"
      [] c = "O" -> "o" [] c = "M" -> "m" [] c = "X" -> "x"
      [] c = "B" -> "b" [] c = "C" -> "c" [] c = "D" -> "d"
      [] c = "E" -> "e" [] c = "F" -> "f"
      [] OTHER -> c

\* strncasecmp(s, prefix, Len(prefix)) == 0
StrNCaseEq(s, prefix) ==
    /\ Len(s) >= Len(prefix)
    /\ \A i \in 1..Len(prefix) : ToLowerChar(s[i]) = ToLowerChar(prefix[i])

\* value of a character as a digit, 99 when it is none
DigitVal(c) ==
    CASE c = "0" -> 0 [] c = "1" -> 1 [] c = "2" -> 2 [] c = "3" -> 3
      [] c = "4" -> 4 [] c = "5" -> 5 [] c = "6" -> 6 [] c = "7" -> 7
      [] c = "8" -> 8 [] c = "9" -> 9
      [] ToLowerChar(c) = "a" -> 10 [] ToLowerChar(c) = "b" -> 11
      [] ToLowerChar(c) = "c" -> 12 [] ToLowerChar(c) = "d" -> 13
      [] ToLowerChar(c) = "e" -> 14 [] ToLowerChar(c) = "f" -> 15
      [] OTHER -> 99

IsDigitIn(s, i, base) == i <= Len(s) /\ DigitVal(s[i]) < base

\* the digits of strtoul from index i on: the value (saturated at ULONG_MAX
\* on overflow) and the index of the first character that is no digit
RECURSIVE ScanDigits(_, _, _, _, _)
ScanDigits(s, i, base, acc, ovf) ==
    IF IsDigitIn(s, i, base)
    THEN LET v == acc * base + DigitVal(s[i])
         IN  IF ovf \/ v >= U32
             THEN ScanDigits(s, i + 1, base, U32 - 1, TRUE)
             ELSE ScanDigits(s, i + 1, base, v, FALSE)
    ELSE [val |-> acc, next |-> i, ovf |-> ovf]

RECURSIVE SkipSpace(_, _)
SkipSpace(s, i) == IF i <= Len(s) /\ s[i] = " " THEN SkipSpace(s, i + 1) ELSE i

\* strtoul(s, &endptr, 0): val is the result, rest is the string at endptr
StrToUL(s) ==
    LET i0   == SkipSpace(s, 1)
        neg  == i0 <= Len(s) /\ s[i0] = "-"
        i1   == IF i0 <= Len(s) /\ s[i0] \in {"-", "+"} THEN i0 + 1 ELSE i0
        hex  == /\ i1 + 1 <= Len(s)
                /\ s[i1] = "0"
                /\ ToLowerChar(s[i1 + 1]) = "x"
                /\ IsDigitIn(s, i1 + 2, 16)
        base == IF hex THEN 16
                ELSE IF i1 <= Len(s) /\ s[i1] = "0" THEN 8 ELSE 10
        i2   == IF hex THEN i1 + 2 ELSE i1
        d    == ScanDigits(s, i2, base, 0, FALSE)
    IN  IF d.next = i2
        THEN [val |-> 0, rest |-> s]
        ELSE [val  |-> IF neg /\ ~d.ovf THEN ToU32(U32 - d.val) ELSE d.val,
              rest |-> SubSeq(s, d.next, Len(s))]

\* the decimal text of n, used to write descriptors
RECURSIVE Dec(_)
Dec(n) ==
    LET c == <<"0", "1", "2", "3", "4", "5", "6", "7", "8", "9">>[(n % 10) + 1]
    IN  IF n < 10 THEN <<c>> ELSE Dec(n \div 10) \o <<c>>

\* the descriptor "RAW:<b>:<e>"
RawName(b, e) == <<"R", "A", "W", ":">> \o Dec(b) \o <<":">> \o Dec(e)

(***************************************************************************)
(* Collaborators: the SD card (block device), an SdFat file, the ROM drive *)
(***************************************************************************)

\* a card of n sectors; data holds the sectors written so far, all others read 0
NewCard(n) == [sectorCount |-> n, data |-> [s \in {} |-> 0]]

SectorAt(card, s) == IF s \in DOMAIN card.data THEN card.data[s] ELSE 0

\* SdCard::readSectors(start, dst, n): fails on a transfer error (~ok) and
\* when the range leaves the card
CardReadSectors(card, start, n, ok) ==
    IF ok /\ start + n <= card.sectorCount
    THEN [ok |-> TRUE, buf |-> [i \in 1..n |-> SectorAt(card, start + i - 1)]]
    ELSE [ok |-> FALSE, buf |-> <<>>]

\* SdCard::writeSectors(start, src, n)
CardWriteSectors(card, start, src, n, ok) ==
    IF ok /\ start + n <= card.sectorCount /\ n <= Len(src)
    THEN [ok   |-> TRUE,
          card |-> [card EXCEPT !.data =
                       [s \in (DOMAIN card.data) \cup (start..(start + n - 1)) |->
                           IF s \in start..(start + n - 1)
                           THEN src[s - start + 1]
                           ELSE card.data[s]]]]
    ELSE [ok |-> FALSE, card |-> card]

\* a default-constructed FsFile: closed
ClosedFile ==
    [isOpen |-> FALSE, curPosition |-> 0, fileSize |-> 0, oflag |-> "O_RDONLY",
     contiguous |-> FALSE, firstSector |-> 0, lastSector |-> 0]

\* what the filesystem holds under a path: fe.exists, fe.readonly, fe.size,
\* fe.contiguous, fe.firstSector, fe.lastSector
NoFile ==
    [exists |-> FALSE, readonly |-> FALSE, size |-> 0,
     contiguous |-> FALSE, firstSector |-> 0, lastSector |-> 0]

\* SD.attrib(filename) & FS_ATTRIB_READ_ONLY
FsAttribReadOnly(fe) == fe.exists /\ fe.readonly

\* SD.open(filename, oflag)
FsOpen(fe, oflag) ==
    IF fe.exists
    THEN [isOpen |-> TRUE, curPosition |-> 0, fileSize |-> fe.size, oflag |-> oflag,
          contiguous |-> fe.contiguous, firstSector |-> fe.firstSector,
          lastSector |-> fe.lastSector]
    ELSE ClosedFile

FsIsOpen(f) == f.isOpen

FsSize(f) == IF f.isOpen THEN f.fileSize ELSE 0

FsCurPosition(f) == f.curPosition

\* FsFile::contiguousRange(&bgn, &end): the out parameters are written on success only
FsContiguousRange(f, bgn, end) ==
    IF f.isOpen /\ f.contiguous /\ f.fileSize > 0
    THEN [ok |-> TRUE, bgn |-> f.firstSector, end |-> f.lastSector]
    ELSE [ok |-> FALSE, bgn |-> bgn, end |-> end]

\* FsFile::seek(pos)
FsSeek(f, pos) ==
    IF f.isOpen /\ pos <= f.fileSize
    THEN [ok |-> TRUE, f |-> [f EXCEPT !.curPosition = pos]]
    ELSE [ok |-> FALSE, f |-> f]

\* FsFile::read(buf, count): the bytes up to the end of the file, -1 on failure
FsRead(f, count, ok) ==
    IF f.isOpen /\ ok
    THEN LET n == Min(count, f.fileSize - f.curPosition)
         IN  [ret |-> n, f |-> [f EXCEPT !.curPosition = f.curPosition + n]]
    ELSE [ret |-> -1, f |-> f]

\* the longest file the model lets a write grow
MaxFileSize == U64 - 1

\* FsFile::write(buf, count): count, or 0 on failure
FsWrite(f, count, ok) ==
    IF f.isOpen /\ f.oflag = "O_RDWR" /\ ok /\ f.curPosition + count <= MaxFileSize
    THEN [ret |-> count,
          f   |-> [f EXCEPT !.curPosition = f.curPosition + count,
                            !.fileSize = Max(f.fileSize, f.curPosition + count)]]
    ELSE [ret |-> 0, f |-> f]

\* FsFile::close(): "ok" closes the handle and reports true; a failed close
\* reports false and leaves the handle closed ("fail_closed") or open ("fail_open")
FsClose(f, outcome) ==
    IF ~f.isOpen
    THEN [ok |-> TRUE, f |-> f]
    ELSE [ok |-> (outcome = "ok"),
          f  |-> IF outcome = "fail_open" THEN f ELSE [f EXCEPT !.isOpen = FALSE]]

\* romDriveCheckPresent(&hdr): fills the header when an image is present
RomDriveCheckPresent(rom) == rom.present

\* romDriveRead(buf, start, count)
RomDriveRead(rom, start, count, ok) == ok

(***************************************************************************)
(* The object.  A world w holds the fields of one ImageBackingStore and    *)
(* the collaborators it reaches: w.card (SD.card()) and w.rom.             *)
(***************************************************************************)

\* result of a member function: the world after it, the value returned, the
\* collaborator calls it made, the bytes it stored in the caller's buffer, and
\* whether an assert stopped the program
Res(w, ret, calls, buf) ==
    [w |-> w, ret |-> ret, calls |-> calls, buf |-> buf, abort |-> FALSE]

Aborted(w) == [w |-> w, ret |-> 0, calls |-> <<>>, buf |-> <<>>, abort |-> TRUE]

\* ImageBackingStore::ImageBackingStore()
\* m_romhdr is not initialised by it: imagesize starts as junk
DefaultStore(card, rom, junk) ==
    [m_israw |-> FALSE, m_isrom |-> FALSE, m_isreadonly_attr |-> FALSE,
     m_blockdev |-> FALSE,
     m_bgnsector |-> 0, m_endsector |-> 0, m_cursector |-> 0,
     m_romhdr |-> [imagesize |-> junk],
     m_fsfile |-> ClosedFile,
     card |-> card, rom |-> rom]

\* variant of RawFormatInvalid that does not look at endptr2 (sensitivity of C8)
RawFormatInvalidFirstOnly(atNul, rest1, rest2) ==
    atNul \/ Head(rest1) # ":"

\* the format check of a raw name: endptr is not at ':' (atNul: it is at the
\* terminating NUL) or endptr2 is not at the end
RawFormatInvalid(atNul, rest1, rest2) ==
    atNul \/ Head(rest1) # ":" \/ rest2 # <<>>

\* variant of LimitToCard that limits to the sector count itself (sensitivity of C7)
LimitToCardOffByOne(endsector, sectorCount) ==
    IF endsector >= sectorCount THEN ToU32(sectorCount) ELSE endsector

\* the end sector of a raw mapping on a card of sectorCount sectors
LimitToCard(endsector, sectorCount) ==
    IF endsector >= sectorCount THEN ToU32(sectorCount - 1) ELSE endsector

\* ImageBackingStore::ImageBackingStore(filename, scsi_block_size), applied to
\* the default-constructed w.  past is what strtoul makes of the bytes behind
\* the terminating NUL when endptr + 1 points there; fe is what the filesystem
\* holds under filename; ini is the UseFATAllocSize setting.
ImageBackingStore(w, filename, scsi_block_size, past, fe, ini) ==
    IF StrNCaseEq(filename, <<"R", "A", "W", ":">>)
    THEN LET p1 == StrToUL(SubSeq(filename, 5, Len(filename)))
             atNul == p1.rest = <<>>
             p2 == IF atNul THEN [val |-> past, rest |-> <<>>]
                   ELSE StrToUL(Tail(p1.rest))
             w1 == [w EXCEPT !.m_bgnsector = p1.val, !.m_endsector = p2.val]
         IN  IF RawFormatInvalid(atNul, p1.rest, p2.rest)
             THEN Res(w1, 0, <<>>, <<>>)
             ELSE IF (scsi_block_size % SD_SECTOR_SIZE) # 0
             THEN Res(w1, 0, <<>>, <<>>)
             ELSE LET sectorCount == w.card.sectorCount
                  IN  Res([w1 EXCEPT
                             !.m_israw = TRUE,
                             !.m_blockdev = TRUE,
                             !.m_endsector = LimitToCard(p2.val, sectorCount)],
                          0, <<[fn |-> "sectorCount"]>>, <<>>)
    ELSE IF StrNCaseEq(filename, <<"R", "O", "M", ":">>)
    THEN IF ~RomDriveCheckPresent(w.rom)
         THEN Res([w EXCEPT !.m_romhdr.imagesize = 0], 0, <<>>, <<>>)
         ELSE Res([w EXCEPT !.m_romhdr.imagesize = w.rom.imagesize,
                            !.m_isrom = TRUE], 0, <<>>, <<>>)
    ELSE LET ro == FsAttribReadOnly(fe)
             f  == FsOpen(fe, IF ro THEN "O_RDONLY" ELSE "O_RDWR")
             sectorcount == ToU32(FsSize(f) \div SD_SECTOR_SIZE)
             cr == FsContiguousRange(f, 0, 0)
             begin == cr.bgn
             end == cr.end
             w1 == [w EXCEPT !.m_isreadonly_attr = ro, !.m_fsfile = f]
         IN  IF /\ cr.ok
                /\ end >= ToU32(begin + sectorcount)
                /\ (scsi_block_size % SD_SECTOR_SIZE) = 0
             THEN LET allocsize == ToU32(end - begin + 1)
                      sc == IF end # ToU32(begin + sectorcount) /\ ini
                            THEN allocsize ELSE sectorcount
                  IN  Res([w1 EXCEPT
                             !.m_israw = TRUE,
                             !.m_blockdev = TRUE,
                             !.m_bgnsector = begin,
                             !.m_endsector = ToU32(begin + sc - 1)],
                          0, <<[fn |-> "fsfile.flush"]>>, <<>>)
             ELSE Res(w1, 0, <<>>, <<>>)

\* ImageBackingStore::isOpen()
isOpen(w) ==
    IF w.m_israw THEN w.m_blockdev
    ELSE IF w.m_isrom THEN w.m_romhdr.imagesize > 0
    ELSE FsIsOpen(w.m_fsfile)

\* ImageBackingStore::isWritable()
isWritable(w) == ~w.m_isrom /\ ~w.m_isreadonly_attr

\* ImageBackingStore::isRom()
isRom(w) == w.m_isrom

\* variant of close that keeps the device handle of a raw store (sensitivity of C2)
closeKeepsDevice(w, outcome) ==
    IF w.m_israw
    THEN Res(w, TRUE, <<>>, <<>>)
    ELSE IF w.m_isrom
    THEN Res([w EXCEPT !.m_romhdr.imagesize = 0], TRUE, <<>>, <<>>)
    ELSE LET c == FsClose(w.m_fsfile, outcome)
         IN  Res([w EXCEPT !.m_fsfile = c.f], c.ok, <<[fn |-> "fsfile.close"]>>, <<>>)

\* ImageBackingStore::close()
close(w, outcome) ==
    IF w.m_israw
    THEN Res([w EXCEPT !.m_blockdev = FALSE], TRUE, <<>>, <<>>)
    ELSE IF w.m_isrom
    THEN Res([w EXCEPT !.m_romhdr.imagesize = 0], TRUE, <<>>, <<>>)
    ELSE LET c == FsClose(w.m_fsfile, outcome)
         IN  Res([w EXCEPT !.m_fsfile = c.f], c.ok, <<[fn |-> "fsfile.close"]>>, <<>>)

\* ImageBackingStore::size()
size(w) ==
    IF w.m_israw /\ w.m_blockdev
    THEN ToU64(ToU32(w.m_endsector - w.m_bgnsector + 1) * SD_SECTOR_SIZE)
    ELSE IF w.m_isrom THEN w.m_romhdr.imagesize
    ELSE FsSize(w.m_fsfile)

\* ImageBackingStore::contiguousRange(&bgnSector, &endSector)
contiguousRange(w) ==
    IF w.m_israw /\ w.m_blockdev
    THEN [ok |-> TRUE, bgn |-> w.m_bgnsector, end |-> w.m_endsector]
    ELSE IF w.m_isrom
    THEN [ok |-> TRUE, bgn |-> 0, end |-> 0]
    ELSE FsContiguousRange(w.m_fsfile, 0, 0)

\* variant of Fallback that switches the mode per call: an aligned quantity
\* takes a store that still holds its device handle back to raw mode
\* (sensitivity of C1)
FallbackPerCall(w, sectors, quantity) ==
    IF ToU64(sectors * SD_SECTOR_SIZE) # quantity
    THEN [w EXCEPT !.m_israw = FALSE]
    ELSE [w EXCEPT !.m_israw = w.m_israw \/ (w.m_blockdev /\ ~w.m_isrom)]

\* the check of seek/read/write that leaves raw mode: the quantity is not
\* sectors * SD_SECTOR_SIZE for the 32-bit sector number taken from it
Fallback(w, sectors, quantity) ==
    IF w.m_israw /\ ToU64(sectors * SD_SECTOR_SIZE) # quantity
    THEN [w EXCEPT !.m_israw = FALSE]
    ELSE w

\* ImageBackingStore::seek(pos)
seek(w0, pos) ==
    LET sectornum == ToU32(pos \div SD_SECTOR_SIZE)
        w == Fallback(w0, sectornum, pos)
    IN  IF w.m_israw
        THEN LET cur == ToU32(w.m_bgnsector + sectornum)
             IN  Res([w EXCEPT !.m_cursector = cur], cur <= w.m_endsector, <<>>, <<>>)
        ELSE IF w.m_isrom
        THEN IF ToU64(sectornum * SD_SECTOR_SIZE) # pos
             THEN Aborted(w)
             ELSE Res([w EXCEPT !.m_cursector = sectornum],
                      ToU32(sectornum * SD_SECTOR_SIZE) < w.m_romhdr.imagesize,
                      <<>>, <<>>)
        ELSE LET r == FsSeek(w.m_fsfile, pos)
             IN  Res([w EXCEPT !.m_fsfile = r.f], r.ok,
                     <<[fn |-> "fsfile.seek", pos |-> pos]>>, <<>>)

\* variant of readRaw that reads from the first sector of the mapping
\* instead of the cursor (sensitivity of C9)
readRawFromBegin(w, count, sectorcount, ok) ==
    LET r == CardReadSectors(w.card, w.m_bgnsector, sectorcount, ok)
        c == <<[fn |-> "readSectors", start |-> w.m_bgnsector, n |-> sectorcount]>>
    IN  IF r.ok
        THEN Res([w EXCEPT !.m_cursector = ToU32(w.m_cursector + sectorcount)],
                 count, c, r.buf)
        ELSE Res(w, -1, c, <<>>)

\* the raw branch of read
readRaw(w, count, sectorcount, ok) ==
    LET r == CardReadSectors(w.card, w.m_cursector, sectorcount, ok)
        c == <<[fn |-> "readSectors", start |-> w.m_cursector, n |-> sectorcount]>>
    IN  IF r.ok
        THEN Res([w EXCEPT !.m_cursector = ToU32(w.m_cursector + sectorcount)],
                 count, c, r.buf)
        ELSE Res(w, -1, c, <<>>)

\* ImageBackingStore::read(buf, count); ok: the collaborator's transfer works
read(w0, count, ok) ==
    LET sectorcount == ToU32(count \div SD_SECTOR_SIZE)
        w == Fallback(w0, sectorcount, count)
    IN  IF w.m_israw /\ w.m_blockdev
        THEN readRaw(w, count, sectorcount, ok)
        ELSE IF w.m_isrom
        THEN IF ToU64(sectorcount * SD_SECTOR_SIZE) # count
             THEN Aborted(w)
             ELSE LET start == ToU32(w.m_cursector * SD_SECTOR_SIZE)
                      c == <<[fn |-> "romDriveRead", start |-> start, count |-> count]>>
                  IN  IF RomDriveRead(w.rom, start, count, ok)
                      THEN Res([w EXCEPT !.m_cursector = ToU32(w.m_cursector + sectorcount)],
                               count, c, <<>>)
                      ELSE Res(w, -1, c, <<>>)
        ELSE LET r == FsRead(w.m_fsfile, count, ok)
             IN  Res([w EXCEPT !.m_fsfile = r.f], r.ret,
                     <<[fn |-> "fsfile.read", pos |-> w.m_fsfile.curPosition,
                        count |-> count]>>, <<>>)

\* variant of writeNotRaw without the read-only check (sensitivity of C3)
writeNotRawNoAttr(w, count, ok) ==
    IF w.m_isrom
    THEN Res(w, 0, <<>>, <<>>)
    ELSE LET r == FsWrite(w.m_fsfile, count, ok)
         IN  Res([w EXCEPT !.m_fsfile = r.f], r.ret,
                 <<[fn |-> "fsfile.write", pos |-> w.m_fsfile.curPosition,
                    count |-> count]>>, <<>>)

\* variant of writeNotRaw without the ROM branch (sensitivity of C4)
writeNotRawNoRom(w, count, ok) ==
    IF w.m_isreadonly_attr
    THEN Res(w, 0, <<>>, <<>>)
    ELSE LET r == FsWrite(w.m_fsfile, count, ok)
         IN  Res([w EXCEPT !.m_fsfile = r.f], r.ret,
                 <<[fn |-> "fsfile.write", pos |-> w.m_fsfile.curPosition,
                    count |-> count]>>, <<>>)

\* the branches of write that do not write raw sectors
writeNotRaw(w, count, ok) ==
    IF w.m_isrom
    THEN Res(w, 0, <<>>, <<>>)
    ELSE IF w.m_isreadonly_attr
    THEN Res(w, 0, <<>>, <<>>)
    ELSE LET r == FsWrite(w.m_fsfile, count, ok)
         IN  Res([w EXCEPT !.m_fsfile = r.f], r.ret,
                 <<[fn |-> "fsfile.write", pos |-> w.m_fsfile.curPosition,
                    count |-> count]>>, <<>>)

\* variant of writeRaw that reports a failed transfer as read does, with -1
\* (sensitivity of C13)
writeRawNegative(w, buf, count, sectorcount, ok) ==
    LET r == CardWriteSectors(w.card, w.m_cursector, buf, sectorcount, ok)
        c == <<[fn |-> "writeSectors", start |-> w.m_cursector, n |-> sectorcount]>>
    IN  IF r.ok
        THEN Res([w EXCEPT !.m_cursector = ToU32(w.m_cursector + sectorcount),
                           !.card = r.card],
                 count, c, <<>>)
        ELSE Res(w, -1, c, <<>>)

\* the raw branch of write
writeRaw(w, buf, count, sectorcount, ok) ==
    LET r == CardWriteSectors(w.card, w.m_cursector, buf, sectorcount, ok)
        c == <<[fn |-> "writeSectors", start |-> w.m_cursector, n |-> sectorcount]>>
    IN  IF r.ok
        THEN Res([w EXCEPT !.m_cursector = ToU32(w.m_cursector + sectorcount),
                           !.card = r.card],
                 count, c, <<>>)
        ELSE Res(w, 0, c, <<>>)

\* ImageBackingStore::write(buf, count); buf holds one value per whole sector
write(w0, buf, count, ok) ==
    LET sectorcount == ToU32(count \div SD_SECTOR_SIZE)
        w == Fallback(w0, sectorcount, count)
    IN  IF w.m_israw /\ w.m_blockdev
        THEN writeRaw(w, buf, count, sectorcount, ok)
        ELSE writeNotRaw(w, count, ok)

\* variant of flush that tests only the ROM flag and the read-only attribute
\* (sensitivity of C15)
flushAlsoRaw(w) ==
    IF ~w.m_isrom /\ ~w.m_isreadonly_attr
    THEN Res(w, 0, <<[fn |-> "fsfile.flush"]>>, <<>>)
    ELSE Res(w, 0, <<>>, <<>>)

\* ImageBackingStore::flush()
flush(w) ==
    IF ~w.m_israw /\ ~w.m_isrom /\ ~w.m_isreadonly_attr
    THEN Res(w, 0, <<[fn |-> "fsfile.flush"]>>, <<>>)
    ELSE Res(w, 0, <<>>, <<>>)

\* ImageBackingStore::position()
position(w) ==
    IF ~w.m_israw /\ ~w.m_isrom THEN FsCurPosition(w.m_fsfile) ELSE 0

(***************************************************************************)
(* State: the fields of the object, its collaborators, and what the last   *)
(* call returned.                                                          *)
(***************************************************************************)
VARIABLES
    m_israw, m_isrom, m_isreadonly_attr, m_blockdev,
    m_bgnsector, m_endsector, m_cursector, m_romhdr, m_fsfile,
    card,      \* the SD card behind SD.card()
    rom,       \* the ROM drive
    pc,        \* "new" before the constructor ran, "ready" after, "aborted" after a failed assert
    lastop,    \* the last call and its arguments
    ret,       \* its return value, with the function that returned it
    calls,     \* the collaborator calls it made
    buf,       \* the sectors a read stored in the caller's buffer
    nops       \* calls made since construction

vars == <<m_israw, m_isrom, m_isreadonly_attr, m_blockdev, m_bgnsector, m_endsector,
          m_cursector, m_romhdr, m_fsfile, card, rom, pc, lastop, ret, calls, buf, nops>>

\* the current world
World ==
    [m_israw |-> m_israw, m_isrom |-> m_isrom, m_isreadonly_attr |-> m_isreadonly_attr,
     m_blockdev |-> m_blockdev,
     m_bgnsector |-> m_bgnsector, m_endsector |-> m_endsector, m_cursector |-> m_cursector,
     m_romhdr |-> m_romhdr, m_fsfile |-> m_fsfile, card |-> card, rom |-> rom]

\* the world after the step
WorldNext ==
    [m_israw |-> m_israw', m_isrom |-> m_isrom', m_isreadonly_attr |-> m_isreadonly_attr',
     m_blockdev |-> m_blockdev',
     m_bgnsector |-> m_bgnsector', m_endsector |-> m_endsector', m_cursector |-> m_cursector',
     m_romhdr |-> m_romhdr', m_fsfile |-> m_fsfile', card |-> card', rom |-> rom']

\* the step that carries out a member function with result r
Apply(r, op) ==
    /\ m_israw' = r.w.m_israw
    /\ m_isrom' = r.w.m_isrom
    /\ m_isreadonly_attr' = r.w.m_isreadonly_attr
    /\ m_blockdev' = r.w.m_blockdev
    /\ m_bgnsector' = r.w.m_bgnsector
    /\ m_endsector' = r.w.m_endsector
    /\ m_cursector' = r.w.m_cursector
    /\ m_romhdr' = r.w.m_romhdr
    /\ m_fsfile' = r.w.m_fsfile
    /\ card' = r.w.card
    /\ rom' = r.w.rom
    /\ pc' = IF r.abort THEN "aborted" ELSE "ready"
    /\ lastop' = op
    /\ ret' = [fn |-> op.op, value |-> r.ret]
    /\ calls' = r.calls
    /\ buf' = r.buf

(***************************************************************************)
(* Inputs                                                                  *)
(***************************************************************************)
CardSizes == {0, SmallCard, U32 - 1}

RomDrives ==
    {[present |-> FALSE, imagesize |-> 0]} \cup
    {[present |-> TRUE, imagesize |-> n] : n \in {2 * SD_SECTOR_SIZE, 3 * SD_SECTOR_SIZE}}

\* junk left in the uninitialised m_romhdr.imagesize (no code reads it
\* before it is written)
JunkValues == {U32 - 1}

\* what strtoul may return for the bytes past the end of the name
PastValues == {0, 1, U32 - 1}

\* the sector ranges of the well-formed raw names: inside the small card,
\* past its end, begin above end, and at the top of the 32-bit sector numbers
RawRanges == { <<0, 3>>, <<0, 7>>, <<5, 3>>, <<U32 - 3, U32 - 2>> }

RawNames == {RawName(r[1], r[2]) : r \in RawRanges}

\* raw names of malformed syntax: "RAW:10", "RAW:abc:20", "RAW:1:2x", "RAW:1-2"
MalformedRawNames ==
    { <<"R", "A", "W", ":", "1", "0">>,
      <<"R", "A", "W", ":", "a", "b", "c", ":", "2", "0">>,
      <<"R", "A", "W", ":", "1", ":", "2", "x">>,
      <<"R", "A", "W", ":", "1", "-", "2">> }

\* raw names in other notations: "raw:0x2:010", and "RAW::4" with an empty field
OddRawNames ==
    { <<"r", "a", "w", ":", "0", "x", "2", ":", "0", "1", "0">>,
      <<"R", "A", "W", ":", ":", "4">> }

RomNames == { <<"R", "O", "M", ":">>, <<"r", "o", "m", ":", "x">> }

PathNames == { <<"a", ".", "i", "m", "g">> }

Filenames == RawNames \cup MalformedRawNames \cup OddRawNames \cup RomNames \cup PathNames

BlockSizes == {512, 1024, 520}

\* first sector of the files of the model
FileFirstSector == 2

SectorsOf(bytes) == (bytes + SD_SECTOR_SIZE - 1) \div SD_SECTOR_SIZE

\* the files a card c can hold under a path: of a few sizes, fragmented or in
\* one run of sectors that is as long as the file or one sector (of slack) longer
FileEnvs(c) ==
    {NoFile} \cup
    { fe \in [exists : {TRUE}, readonly : BOOLEAN, size : {100, 1024},
              contiguous : BOOLEAN, firstSector : {FileFirstSector},
              lastSector : FileFirstSector..(FileFirstSector + 3)] :
        /\ fe.lastSector < c.sectorCount
        /\ fe.lastSector - fe.firstSector + 1 \in
              {SectorsOf(fe.size)} \cup
              (IF fe.contiguous THEN {SectorsOf(fe.size) + 1} ELSE {}) }

SeekInputs ==
    {0, SD_SECTOR_SIZE, 5 * SD_SECTOR_SIZE, 7,
     (U32 - 1) * SD_SECTOR_SIZE, U32 * SD_SECTOR_SIZE}

ReadCounts == {SD_SECTOR_SIZE, 2 * SD_SECTOR_SIZE, 100}

\* a write: its byte count and one value per whole sector of its buffer
WriteInputs ==
    { [count |-> 0, data |-> <<>>],
      [count |-> SD_SECTOR_SIZE, data |-> <<1>>],
      [count |-> 2 * SD_SECTOR_SIZE, data |-> <<1, 2>>],
      [count |-> 100, data |-> <<>>] }

CloseOutcomes == {"ok", "fail_closed", "fail_open"}

(***************************************************************************)
(* Specification                                                           *)
(***************************************************************************)
Init ==
    \E n \in CardSizes, r \in RomDrives, junk \in JunkValues :
        LET w == DefaultStore(NewCard(n), r, junk)
        IN  /\ m_israw = w.m_israw
            /\ m_isrom = w.m_isrom
            /\ m_isreadonly_attr = w.m_isreadonly_attr
            /\ m_blockdev = w.m_blockdev
            /\ m_bgnsector = w.m_bgnsector
            /\ m_endsector = w.m_endsector
            /\ m_cursector = w.m_cursector
            /\ m_romhdr = w.m_romhdr
            /\ m_fsfile = w.m_fsfile
            /\ card = w.card
            /\ rom = w.rom
            /\ pc = "new"
            /\ lastop = [op |-> "none"]
            /\ ret = [fn |-> "none", value |-> 0]
            /\ calls = <<>>
            /\ buf = <<>>
            /\ nops = 0

Construct ==
    /\ pc = "new"
    /\ \E filename \in Filenames, scsi_block_size \in BlockSizes, past \in PastValues,
          fe \in FileEnvs(card), ini \in BOOLEAN :
          \* the inputs a name does not read are kept at one value
          /\ filename \notin PathNames => fe = NoFile /\ ~ini
          /\ filename \notin RawNames => card.sectorCount = SmallCard
          /\ filename \notin RomNames => ~rom.present
          /\ filename \notin MalformedRawNames => past = 0
          /\ Apply(ImageBackingStore(World, filename, scsi_block_size, past, fe, ini),
                   [op |-> "construct", filename |-> filename,
                    scsi_block_size |-> scsi_block_size, fe |-> fe,
                    ini |-> ini])
    /\ nops' = 0

Seek ==
    /\ pc = "ready" /\ nops < MaxOps
    /\ \E pos \in SeekInputs : Apply(seek(World, pos), [op |-> "seek", pos |-> pos])
    /\ nops' = nops + 1

Read ==
    /\ pc = "ready" /\ nops < MaxOps
    /\ \E count \in ReadCounts, ok \in BOOLEAN :
          Apply(read(World, count, ok), [op |-> "read", count |-> count])
    /\ nops' = nops + 1

Write ==
    /\ pc = "ready" /\ nops < MaxOps
    /\ \E wr \in WriteInputs, ok \in BOOLEAN :
          Apply(write(World, wr.data, wr.count, ok),
                [op |-> "write", count |-> wr.count, data |-> wr.data])
    /\ nops' = nops + 1

Flush ==
    /\ pc = "ready" /\ nops < MaxOps
    /\ Apply(flush(World), [op |-> "flush"])
    /\ nops' = nops + 1

Close ==
    /\ pc = "ready" /\ nops < MaxOps
    /\ \E outcome \in CloseOutcomes : Apply(close(World, outcome), [op |-> "close"])
    /\ nops' = nops + 1

Next == Construct \/ Seek \/ Read \/ Write \/ Flush \/ Close

Spec == Init /\ [][Next]_vars

(***************************************************************************)
(* Properties                                                              *)
(***************************************************************************)

\* the mode of a store, in the order every member function tests the flags
Mode(w) == IF w.m_israw THEN "Raw" ELSE IF w.m_isrom THEN "Rom" ELSE "File"

Aligned(n) == n % SD_SECTOR_SIZE = 0

\* a call whose byte quantity is no multiple of the sector size
Unaligned(op) ==
    \/ op.op = "seek" /\ ~Aligned(op.pos)
    \/ op.op \in {"read", "write"} /\ ~Aligned(op.count)

HasCall(cs, fn) == \E i \in 1..Len(cs) : cs[i].fn = fn

\* File-mode semantics: every dispatching member function of w does what the
\* filesystem file does (a write is refused first when the read-only
\* attribute is set)
FileSemantics(w) ==
    /\ isOpen(w) = FsIsOpen(w.m_fsfile)
    /\ size(w) = FsSize(w.m_fsfile)
    /\ \A pos \in SeekInputs :
          LET r == seek(w, pos)
              f == FsSeek(w.m_fsfile, pos)
          IN  r.ret = f.ok /\ r.w = [w EXCEPT !.m_fsfile = f.f]
    /\ \A count \in ReadCounts, ok \in BOOLEAN :
          LET r == read(w, count, ok)
              f == FsRead(w.m_fsfile, count, ok)
          IN  r.ret = f.ret /\ r.w = [w EXCEPT !.m_fsfile = f.f]
    /\ \A wr \in WriteInputs, ok \in BOOLEAN :
          LET r == write(w, wr.data, wr.count, ok)
              f == FsWrite(w.m_fsfile, wr.count, ok)
          IN  IF w.m_isreadonly_attr
              THEN r.ret = 0 /\ r.w = w
              ELSE r.ret = f.ret /\ r.w = [w EXCEPT !.m_fsfile = f.f]

\* a call op that takes w to v, as C1 allows it
ModeStep(w, op, v) ==
    /\ Mode(v) # Mode(w) => Mode(w) = "Raw" /\ Mode(v) = "File"
    /\ Mode(w) = "Raw" /\ Unaligned(op) => Mode(v) = "File"

\* C1: over any sequence of calls on one store the only mode change is
\* Raw -> File; a store that has left Raw mode never is in Raw mode again,
\* whatever the alignment of later offsets and counts, and no store enters or
\* leaves Rom mode; an unaligned seek/read/write in Raw mode leaves the store
\* in File mode, and in File mode isOpen/size/seek/read/write have File-mode
\* semantics.  Stated of every call in every state a constructed store reaches.
C1_ModeOnlyRawToFile ==
    pc = "ready" =>
        /\ \A pos \in SeekInputs :
              ModeStep(World, [op |-> "seek", pos |-> pos], seek(World, pos).w)
        /\ \A count \in ReadCounts, ok \in BOOLEAN :
              ModeStep(World, [op |-> "read", count |-> count], read(World, count, ok).w)
        /\ \A wr \in WriteInputs, ok \in BOOLEAN :
              ModeStep(World, [op |-> "write", count |-> wr.count],
                       write(World, wr.data, wr.count, ok).w)
        /\ ModeStep(World, [op |-> "flush"], flush(World).w)
        /\ \A o \in CloseOutcomes : ModeStep(World, [op |-> "close"], close(World, o).w)
        /\ Mode(World) = "File" => FileSemantics(World)

\* C1 witness: a store that was constructed raw (it still holds the device
\* handle) has left raw mode, and a later sector-aligned seek went to the file
C1_Witness ==
    /\ pc = "ready" /\ ~m_israw /\ m_blockdev
    /\ lastop.op = "seek" /\ lastop.pos = SD_SECTOR_SIZE
    /\ HasCall(calls, "fsfile.seek")

\* C2: in every state of a constructed store, close() leaves isOpen() false
\* in each of the three modes (for File mode: when the filesystem's close
\* closes the handle), and a second close() on the then closed Raw or Rom
\* store returns true again.
C2_CloseThenNotOpen ==
    pc = "ready" =>
        \A o1 \in CloseOutcomes, o2 \in CloseOutcomes :
            LET r1 == close(World, o1)
                r2 == close(r1.w, o2)
            IN  /\ (Mode(World) = "File" => o1 # "fail_open") => ~isOpen(r1.w)
                /\ Mode(World) \in {"Raw", "Rom"} =>
                      r1.ret = TRUE /\ r2.ret = TRUE /\ ~isOpen(r2.w)

\* C2 witness: close() has run on a raw store and the store is not open
C2_Witness ==
    /\ pc = "ready" /\ lastop.op = "close" /\ m_israw
    /\ ret.value = TRUE /\ ~isOpen(World)

\* C3: a File-mode store whose read-only attribute was found at construction
\* returns 0 from every write and does not call the file's write, in every
\* state it can reach.
C3_ReadOnlyFileWrite ==
    pc = "ready" /\ Mode(World) = "File" /\ m_isreadonly_attr =>
        \A wr \in WriteInputs, ok \in BOOLEAN :
            LET r == write(World, wr.data, wr.count, ok)
            IN  r.ret = 0 /\ ~HasCall(r.calls, "fsfile.write") /\ r.w.m_fsfile = m_fsfile

\* C3 witness: a write of one sector on an open read-only File-mode store
\* returned 0 (the count is aligned, so the store was in File mode before it)
C3_Witness ==
    /\ pc = "ready" /\ lastop.op = "write" /\ lastop.count = SD_SECTOR_SIZE
    /\ Mode(World) = "File" /\ m_isreadonly_attr /\ FsIsOpen(m_fsfile)
    /\ ret.value = 0 /\ calls = <<>>

\* C4: a store constructed in Rom mode returns 0 from every write, in every
\* state it can reach; the write leaves romImageSize and the cursor (and all
\* other state) as they are and calls no collaborator.
C4_RomWrite ==
    pc = "ready" /\ m_isrom =>
        \A wr \in WriteInputs, ok \in BOOLEAN :
            LET r == write(World, wr.data, wr.count, ok)
            IN  /\ r.ret = 0
                /\ r.calls = <<>>
                /\ r.w.m_romhdr = m_romhdr
                /\ r.w.m_cursector = m_cursector
                /\ r.w = World

\* C4 witness: a write on an open Rom store, after a seek or read moved the
\* cursor, returned 0
C4_Witness ==
    /\ pc = "ready" /\ lastop.op = "write" /\ m_isrom
    /\ m_romhdr.imagesize > 0 /\ m_cursector > 0
    /\ ret.value = 0 /\ calls = <<>>

\* C5 (as claimed): whenever a store is open in Raw mode, beginSector <= endSector
C5_BeginNotAboveEnd ==
    pc = "ready" /\ m_israw /\ isOpen(World) => m_bgnsector <= m_endsector

\* the constructor has just run on the name RAW:<b>:<e> with a block size
\* that is a multiple of the sector size
ConstructedRaw(b, e) ==
    /\ pc = "ready"
    /\ lastop.op = "construct"
    /\ lastop.filename = RawName(b, e)
    /\ Aligned(lastop.scsi_block_size)

\* C6 (as claimed): for every RAW:b:e with e below the card's sector count
\* and a block size that is a multiple of the sector size, the constructed
\* store is open, size() is (e-b+1)*SECTOR_SIZE and contiguousRange() returns
\* exactly (b, e)
C6_RawDescriptor ==
    \A rg \in RawRanges :
        ConstructedRaw(rg[1], rg[2]) /\ rg[2] < card.sectorCount =>
            /\ isOpen(World)
            /\ size(World) = (rg[2] - rg[1] + 1) * SD_SECTOR_SIZE
            /\ contiguousRange(World) = [ok |-> TRUE, bgn |-> rg[1], end |-> rg[2]]

\* C7: for every RAW:b:e with e at or above the card's sector count the
\* constructor sets endSector to sectorCount - 1 and size() is
\* (sectorCount - 1 - b + 1) * SECTOR_SIZE, the sector numbers taken in
\* unsigned 32-bit arithmetic.
C7_ClampToCard ==
    \A rg \in RawRanges :
        ConstructedRaw(rg[1], rg[2]) /\ rg[2] >= card.sectorCount =>
            /\ m_endsector = ToU32(card.sectorCount - 1)
            /\ size(World) =
                  ToU32(ToU32(card.sectorCount - 1) - rg[1] + 1) * SD_SECTOR_SIZE

\* C7 witness: RAW:0:7 constructed on the small card, which ends before sector 7
C7_Witness ==
    /\ ConstructedRaw(0, 7)
    /\ card.sectorCount = SmallCard
    /\ isOpen(World)
    /\ m_endsector = SmallCard - 1

\* C8: a raw name of malformed syntax, a raw name with a block size that is
\* no multiple of the sector size, and a ROM name with no ROM image present
\* each leave the constructed store not open, not in Raw mode and without a
\* device handle.
C8_FailedConstruction ==
    /\ pc = "ready"
    /\ lastop.op = "construct"
    /\ \/ lastop.filename \in MalformedRawNames
       \/ /\ lastop.filename \in RawNames \cup OddRawNames
          /\ ~Aligned(lastop.scsi_block_size)
       \/ lastop.filename \in RomNames /\ ~rom.present
    => ~isOpen(World) /\ ~m_israw /\ ~m_blockdev

\* C8 witness: the constructor has run on "RAW:1:2x"
C8_Witness ==
    /\ pc = "ready"
    /\ lastop.op = "construct"
    /\ lastop.filename = <<"R", "A", "W", ":", "1", ":", "2", "x">>
    /\ ~isOpen(World)

\* seek(p); write(data, N); seek(p); read(buf, N) from w, on a card whose
\* transfers work
RoundTrip(w, p, wr) ==
    LET s1 == seek(w, p)
        s2 == write(s1.w, wr.data, wr.count, TRUE)
        s3 == seek(s2.w, p)
        s4 == read(s3.w, wr.count, TRUE)
    IN  [seek1 |-> s1, write |-> s2, seek2 |-> s3, read |-> s4]

\* the round trip went as C9 says
RoundTripGood(t, wr) ==
    /\ t.write.ret = wr.count
    /\ t.read.ret = wr.count
    /\ t.read.buf = wr.data
    /\ Mode(t.read.w) = "Raw"

\* both seeks of the round trip succeeded in Raw mode
RoundTripSeeksGood(t) ==
    /\ t.seek1.ret = TRUE /\ Mode(t.seek1.w) = "Raw"
    /\ t.seek2.ret = TRUE /\ Mode(t.seek2.w) = "Raw"

\* C9 (as claimed): in Raw mode, for p and N multiples of the sector size,
\* when both seeks succeed, write and read return N, buf equals data and the
\* store is still in Raw mode.  Stated for the positions p whose sector is
\* on the card.
C9_RoundTrip ==
    pc = "ready" /\ m_israw /\ m_blockdev =>
        \A p \in SeekInputs, wr \in WriteInputs :
            Aligned(p) /\ Aligned(wr.count) =>
                LET t == RoundTrip(World, p, wr)
                IN  /\ RoundTripSeeksGood(t)
                    /\ t.seek1.w.m_cursector < card.sectorCount
                    => RoundTripGood(t, wr)

\* C9 (amended): the same, when the sectors written lie on the card
C9_RoundTripOnCard ==
    pc = "ready" /\ m_israw /\ m_blockdev =>
        \A p \in SeekInputs, wr \in WriteInputs :
            Aligned(p) /\ Aligned(wr.count) =>
                LET t == RoundTrip(World, p, wr)
                IN  /\ RoundTripSeeksGood(t)
                    /\ t.seek1.w.m_cursector + wr.count \div SD_SECTOR_SIZE
                          <= card.sectorCount
                    => RoundTripGood(t, wr)

\* C9 witness: after a write of the sectors <<1, 2>> and a seek back into
\* them, a read in Raw mode returned the second sector written
C9_Witness ==
    /\ pc = "ready" /\ m_israw /\ m_blockdev
    /\ lastop.op = "read" /\ lastop.count = SD_SECTOR_SIZE
    /\ ret.value = SD_SECTOR_SIZE
    /\ buf = <<2>>
    /\ m_cursector = m_bgnsector + 2

\* C10 (as claimed): in Raw mode seek(pos), pos a multiple of the sector
\* size, sets currentSector to beginSector + pos/SECTOR_SIZE and returns true
\* exactly if that sector lies in [beginSector, endSector], also when
\* beginSector + pos/SECTOR_SIZE exceeds the largest 32-bit number.  Stated
\* for the positions whose own sector number pos/SECTOR_SIZE fits 32 bits.
C10_SeekRaw ==
    pc = "ready" /\ m_israw =>
        \A pos \in SeekInputs :
            Aligned(pos) /\ pos \div SD_SECTOR_SIZE < U32 =>
                LET r == seek(World, pos)
                    target == m_bgnsector + pos \div SD_SECTOR_SIZE
                IN  /\ r.w.m_cursector = target
                    /\ r.ret = (m_bgnsector <= target /\ target <= m_endsector)

\* the constructor has just run on a filesystem path naming an existing file
ConstructedPath ==
    /\ pc = "ready"
    /\ lastop.op = "construct"
    /\ lastop.filename \in PathNames
    /\ lastop.fe.exists

\* the sectors the file handed to the constructor occupies on the card
FileSpan(fe) == fe.lastSector - fe.firstSector + 1

\* C11 (as claimed): a store constructed on a filesystem path is in Raw mode
\* with beginSector the file's first sector exactly if the file is
\* contiguous, its span end - begin + 1 is at least size / SECTOR_SIZE and
\* the block size is a multiple of the sector size, and is in File mode
\* otherwise; a contiguous file whose span equals its sector count is in
\* Raw mode.
C11_PromotedExactly ==
    ConstructedPath =>
        LET fe == lastop.fe
            promotable ==
                /\ fe.contiguous /\ fe.size > 0
                /\ FileSpan(fe) >= fe.size \div SD_SECTOR_SIZE
                /\ Aligned(lastop.scsi_block_size)
        IN  IF promotable
            THEN Mode(World) = "Raw" /\ m_bgnsector = fe.firstSector
            ELSE Mode(World) = "File"

\* C12 (as claimed): for a file promoted to Raw mode whose span is larger
\* than size / SECTOR_SIZE, size() is (size / SECTOR_SIZE) * SECTOR_SIZE with
\* UseFATAllocSize off and (end - begin + 1) * SECTOR_SIZE with it on, for
\* every amount of slack, one sector included.  Stated for the files of at
\* least one sector.
C12_AllocSizeToggle ==
    ConstructedPath /\ Mode(World) = "Raw" =>
        LET fe == lastop.fe
            sectorcount == fe.size \div SD_SECTOR_SIZE
        IN  sectorcount > 0 /\ FileSpan(fe) > sectorcount =>
                size(World) = IF lastop.ini
                              THEN FileSpan(fe) * SD_SECTOR_SIZE
                              ELSE sectorcount * SD_SECTOR_SIZE

\* C13: in Raw mode a read or write whose count is a multiple of the sector
\* size transfers count / SECTOR_SIZE sectors starting at currentSector; when
\* the device reports success it returns count and currentSector has
\* advanced by count / SECTOR_SIZE; when the device reports failure read
\* returns a negative value, write returns 0 and currentSector is unchanged.
C13_RawTransfer ==
    pc = "ready" /\ m_israw /\ m_blockdev =>
        \A ok \in BOOLEAN :
            /\ \A count \in ReadCounts :
                  Aligned(count) =>
                      LET n == count \div SD_SECTOR_SIZE
                          r == read(World, count, ok)
                          dev == CardReadSectors(card, m_cursector, n, ok)
                      IN  /\ r.calls = <<[fn |-> "readSectors",
                                          start |-> m_cursector, n |-> n]>>
                          /\ IF dev.ok
                             THEN /\ r.ret = count
                                  /\ r.w.m_cursector = m_cursector + n
                             ELSE /\ r.ret < 0
                                  /\ r.w.m_cursector = m_cursector
            /\ \A wr \in WriteInputs :
                  Aligned(wr.count) =>
                      LET n == wr.count \div SD_SECTOR_SIZE
                          r == write(World, wr.data, wr.count, ok)
                          dev == CardWriteSectors(card, m_cursector, wr.data, n, ok)
                      IN  /\ r.calls = <<[fn |-> "writeSectors",
                                          start |-> m_cursector, n |-> n]>>
                          /\ IF dev.ok
                             THEN /\ r.ret = wr.count
                                  /\ r.w.m_cursector = m_cursector + n
                             ELSE /\ r.ret = 0
                                  /\ r.w.m_cursector = m_cursector

\* C13 witness: a write of one sector in Raw mode that the device refused
\* returned 0 and left the cursor on the sector a seek had put it on
C13_Witness ==
    /\ pc = "ready" /\ m_israw /\ m_blockdev
    /\ lastop.op = "write" /\ lastop.count = SD_SECTOR_SIZE
    /\ calls = <<[fn |-> "writeSectors", start |-> m_cursector, n |-> 1]>>
    /\ ret.value = 0
    /\ m_cursector = m_bgnsector + 1

\* C14 (as claimed): in Rom mode seek(pos), pos a multiple of the sector
\* size, sets currentSector to pos / SECTOR_SIZE and returns true exactly if
\* pos lies within romImageSize, also when the sector number times
\* SECTOR_SIZE does not fit 32 bits.  Stated for the positions whose sector
\* number pos / SECTOR_SIZE fits 32 bits, the position of U32 bytes among
\* them.
C14_SeekRom ==
    pc = "ready" /\ Mode(World) = "Rom" =>
        \A pos \in SeekInputs \cup {U32} :
            Aligned(pos) /\ pos \div SD_SECTOR_SIZE < U32 =>
                LET r == seek(World, pos)
                IN  /\ ~r.abort
                    /\ r.w.m_cursector = pos \div SD_SECTOR_SIZE
                    /\ r.ret = (pos < m_romhdr.imagesize)

\* C15 (as claimed): flush() calls no collaborator and changes no state in
\* Raw and Rom mode, and in File mode it always calls the filesystem flush,
\* also for a file opened read-only.
C15_FlushByMode ==
    pc = "ready" =>
        LET r == flush(World)
        IN  /\ r.w = World
            /\ r.calls = IF Mode(World) = "File"
                         THEN <<[fn |-> "fsfile.flush"]>>
                         ELSE <<>>

\* C15 (amended): flush() calls no collaborator and changes no state in Raw
\* and Rom mode; in File mode it calls the filesystem flush exactly if the
\* file does not carry the read-only attribute, and nothing otherwise.
C15_FlushUnlessReadOnly ==
    pc = "ready" =>
        LET r == flush(World)
        IN  /\ r.w = World
            /\ r.calls = IF Mode(World) = "File" /\ ~m_isreadonly_attr
                         THEN <<[fn |-> "fsfile.flush"]>>
                         ELSE <<>>

\* C15 witness: flush() on an open File-mode store of a read-only file
\* called nothing
C15_Witness ==
    /\ pc = "ready"
    /\ lastop.op = "flush"
    /\ Mode(World) = "File"
    /\ m_isreadonly_attr /\ FsIsOpen(m_fsfile)
    /\ calls = <<>>

\* C16 (as claimed): when isWritable() is false a write() reaches neither
\* writeSectors nor the filesystem write and returns 0, also for a read-only
\* file promoted to Raw mode and written with an aligned count.  write()
\* leaves isWritable() as it was, so the store after the write tells.
\* Stated for the writes of at least one byte.
C16_NotWritableNoWrite ==
    pc = "ready" /\ lastop.op = "write" /\ lastop.count > 0
                 /\ ~isWritable(World) =>
        /\ ret.value = 0
        /\ ~HasCall(calls, "writeSectors")
        /\ ~HasCall(calls, "fsfile.write")

\* C17 (as claimed): once close() has returned true, isOpen() is false after
\* every later seek, read, write or flush and no later read or write reaches
\* a collaborator, also for a promoted file that is closed and then accessed
\* unaligned.  Stated for the stores closed in Raw mode, for the call that
\* follows the close(), and for the reads and writes a collaborator served
\* (a positive return value).
C17_ClosedStaysClosed ==
    [][ /\ pc = "ready" /\ lastop.op = "close" /\ ret.value = TRUE
        /\ Mode(World) = "Raw"
        /\ lastop'.op \in {"seek", "read", "write", "flush"}
        => /\ ~isOpen(WorldNext)
           /\ lastop'.op \in {"read", "write"} => ret'.value <= 0 ]_vars

\* C18 (as claimed): in Raw mode every start sector and sector count handed
\* to readSectors or writeSectors lies entirely within
\* [beginSector, endSector], whatever seeks, reads and writes came before.
\* Stated for the mappings that lie on the card and the transfers that start
\* inside the mapping: their last sector is inside it too.
C18_TransfersInRange ==
    pc = "ready" /\ lastop.op \in {"read", "write"}
                 /\ m_endsector < card.sectorCount =>
        \A i \in DOMAIN calls :
            /\ calls[i].fn \in {"readSectors", "writeSectors"}
            /\ calls[i].n > 0
            /\ m_bgnsector <= calls[i].start /\ calls[i].start <= m_endsector
            => calls[i].start + calls[i].n - 1 <= m_endsector

\* C19 (as claimed): for a file promoted to Raw mode, after a successful
\* seek(p) with p a multiple of the sector size, a read or write whose count
\* is no multiple of the sector size, which demotes the store to File mode,
\* operates on the file at byte offset p.  Stated for the positions p inside
\* the file.
C19_PositionAcrossDemotion ==
    [][ /\ pc = "ready" /\ lastop.op = "seek" /\ Aligned(lastop.pos)
        /\ ret.value = TRUE
        /\ lastop.pos < FsSize(m_fsfile)
        /\ Mode(World) = "Raw" /\ m_blockdev /\ FsIsOpen(m_fsfile)
        /\ lastop'.op \in {"read", "write"} /\ ~Aligned(lastop'.count)
        => \A i \in DOMAIN calls' :
              calls'[i].fn \in {"fsfile.read", "fsfile.write"} =>
                  calls'[i].pos = lastop.pos ]_vars

\* C20 (as claimed): seek, read and write never change isOpen(): a store that
\* was open before the call is open after it and a closed one stays closed,
\* also a store constructed on RAW:<b>:<e>, which has no file handle, after
\* an unaligned seek, read or write.  Stated for the stores open before the
\* call whose last sector lies on the card.
C20_OpenUnchanged ==
    [][ /\ pc = "ready" /\ isOpen(World)
        /\ m_endsector < card.sectorCount
        /\ lastop'.op \in {"seek", "read", "write"}
        => isOpen(WorldNext) ]_vars
====
